---- MODULE Spec2Model ----
(***************************************************************************)
(* A model of standard_logger: LoggerConfig validation, setup_logging and  *)
(* the wiring it installs on the logging root and in the loguru backend,   *)
(* and the StandardLogger facade calls that read that wiring.              *)
(*                                                                         *)
(* Strings the code inspects character by character (level names, file     *)
(* names) are sequences of one-character strings.                          *)
(***************************************************************************)
EXTENDS Integers, Sequences, FiniteSets, TLC

VARIABLES
    rootLevel,      \* level of the logging root logger
    rootHandlers,   \* handlers attached to the root logger, in order
    loggerClass,    \* class installed with logging.setLoggerClass
    sinks,          \* handlers registered in the loguru backend
    clsFlags,       \* the three class attributes stamped on StandardLogger
    hook,           \* the process-wide uncaught-exception hook
    cfg,            \* effective configuration of the latest successful setup
    ret,            \* outcome of the latest setup_logging call
    nOk,            \* successful setup_logging calls so far, counted up to MaxOk
    lastCall,       \* what the latest facade call did
    fileOut,        \* the record the file sink persisted for the latest call
    vIn,            \* level validation: the field and the raw value
    vOut,           \* level validation: the result
    prog,           \* the fallback progress scope and its _AsciiProgressTracker
    term,           \* the current line of the error stream and the cursor column
    panelIn,        \* fallback panel: content lines, title, compact
    panelOut,       \* fallback panel: the rendered rows
    ruleIn,         \* fallback rule: title, fill characters, align, terminal width
    ruleOut,        \* fallback rule: the printed line
    loggers,        \* the loggers the logging manager holds, by name
    lookup,         \* the latest logging.getLogger call and what it returned
    py,             \* the interpreter: which frame logging.currentframe() returns
    site,           \* the latest record the bridge forwarded: its stack, its depth
    pending         \* an exception() call between reading the flags and its record

vars == <<rootLevel, rootHandlers, loggerClass, sinks, clsFlags, hook, cfg, ret,
          nOk, lastCall, fileOut, vIn, vOut, prog, term, panelIn, panelOut,
          ruleIn, ruleOut, loggers, lookup, py, site, pending>>

callVars == <<py, site, pending>>

progressVars == <<prog, term>>

renderVars == <<panelIn, panelOut, ruleIn, ruleOut>>

setupVars == <<rootLevel, rootHandlers, loggerClass, sinks, clsFlags, hook, cfg,
               ret, nOk, lastCall, fileOut, loggers, lookup>>

(***************************************************************************)
(* Bounds of the model.                                                    *)
(***************************************************************************)
MaxLevelInt == 51   \* integer level inputs range over MinLevelInt..MaxLevelInt
MaxOk == 2          \* nOk counts successful setups up to this value

MaxCalls == 3       \* add_task and update calls inside one progress scope
MaxTitleLen == 76   \* panel titles are up to this long
MaxLineLen == 76    \* panel content lines are up to this long
MaxRuleTitle == 13  \* rule titles are up to this long

MinLevelInt == 0 - 1

(***************************************************************************)
(* Severity numbers of the logging framework.                              *)
(***************************************************************************)
NOTSET == 0
DEBUG == 10
INFO == 20
WARNING == 30
ERROR == 40
CRITICAL == 50

(***************************************************************************)
(* Characters and strings.                                                 *)
(***************************************************************************)
LowerChars == <<"a","b","c","d","e","f","g","h","i","j","k","l","m",
                "n","o","p","q","r","s","t","u","v","w","x","y","z">>
UpperChars == <<"A","B","C","D","E","F","G","H","I","J","K","L","M",
                "N","O","P","Q","R","S","T","U","V","W","X","Y","Z">>

IndexIn(seq, c) == IF \E i \in DOMAIN seq : seq[i] = c
                   THEN CHOOSE i \in DOMAIN seq : seq[i] = c
                   ELSE 0

\* str.upper(), one character
UpperChar(c) == IF IndexIn(LowerChars, c) > 0 THEN UpperChars[IndexIn(LowerChars, c)] ELSE c

\* str.upper()
Upper(s) == [i \in DOMAIN s |-> UpperChar(s[i])]

\* code point order of the letters: every upper-case letter sorts before every
\* lower-case one
Ord(c) == IF IndexIn(UpperChars, c) > 0 THEN 64 + IndexIn(UpperChars, c)
          ELSE IF IndexIn(LowerChars, c) > 0 THEN 96 + IndexIn(LowerChars, c)
          ELSE 0

\* a < b for Python strings
RECURSIVE StrLess(_, _)
StrLess(a, b) ==
    IF b = <<>> THEN FALSE
    ELSE IF a = <<>> THEN TRUE
    ELSE IF Ord(Head(a)) # Ord(Head(b)) THEN Ord(Head(a)) < Ord(Head(b))
    ELSE StrLess(Tail(a), Tail(b))

sCRITICAL == <<"C","R","I","T","I","C","A","L">>
sFATAL == <<"F","A","T","A","L">>
sERROR == <<"E","R","R","O","R">>
sWARN == <<"W","A","R","N">>
sWARNING == <<"W","A","R","N","I","N","G">>
sINFO == <<"I","N","F","O">>
sDEBUG == <<"D","E","B","U","G">>
sNOTSET == <<"N","O","T","S","E","T">>
sTRACE == <<"T","R","A","C","E">>
sSUCCESS == <<"S","U","C","C","E","S","S">>
sdebug == <<"d","e","b","u","g">>
sInfo == <<"I","n","f","o">>
swarning == <<"w","a","r","n","i","n","g">>
sError == <<"E","r","r","o","r">>
scritical == <<"c","r","i","t","i","c","a","l">>
sverbose == <<"v","e","r","b","o","s","e">>
sLoud == <<"L","O","U","D">>
sEmpty == <<>>

(***************************************************************************)
(* Level values: an int, a str, or a value of another type.                *)
(***************************************************************************)
IntLevel(n) == [k |-> "int", n |-> n, s |-> <<>>]
StrLevel(s) == [k |-> "str", n |-> 0, s |-> s]
OtherLevel == [k |-> "other", n |-> 0, s |-> <<>>]

\* logging._nameToLevel
NameToLevel(s) ==
    CASE s = sCRITICAL -> CRITICAL
      [] s = sFATAL -> CRITICAL
      [] s = sERROR -> ERROR
      [] s = sWARN -> WARNING
      [] s = sWARNING -> WARNING
      [] s = sINFO -> INFO
      [] s = sDEBUG -> DEBUG
      [] s = sNOTSET -> NOTSET
      [] OTHER -> 0 - 1

IsLevelName(s) == NameToLevel(s) >= 0

\* logging._levelToName
IsLevelNumber(n) == n \in {CRITICAL, ERROR, WARNING, INFO, DEBUG, NOTSET}

\* logging.getLevelName(x): "int" when it yields a level number (x is a known
\* name), "str" otherwise: the name of a known number, or the text "Level x".
\* It raises for no argument.
GetLevelNameKind(x) == IF x.k = "str" /\ IsLevelName(x.s) THEN "int" ELSE "str"

(***************************************************************************)
(* LoggerConfig._validate_level                                            *)
(***************************************************************************)
DefaultLevel(field) == IF field = "console_level" THEN IntLevel(INFO) ELSE IntLevel(DEBUG)

\* the value of `valid` when the try block is left
LevelIsValid(level) ==
    CASE level.k = "str" -> GetLevelNameKind(StrLevel(Upper(level.s))) = "int"
      [] level.k = "int" -> TRUE     \* getLevelName(int) returns, it never raises
      [] OTHER -> FALSE

\* the attribute after the call, and the warnings logged by it
ValidateLevel(field, level) ==
    IF LevelIsValid(level)
    THEN [level |-> level, warnings |-> <<>>, raised |-> FALSE]
    ELSE [level |-> DefaultLevel(field),
          warnings |-> <<[field |-> field, value |-> level]>>,
          raised |-> FALSE]

(***************************************************************************)
(* Level validation on its own: LoggerConfig(...) with one level field     *)
(* drawn from the inputs below.                                            *)
(***************************************************************************)
LevelStrings == {sCRITICAL, sFATAL, sERROR, sWARN, sWARNING, sINFO, sDEBUG, sNOTSET,
                 sTRACE, sSUCCESS, sdebug, sInfo, swarning, sError, scritical,
                 sverbose, sLoud, sEmpty}

RawLevels == {IntLevel(n) : n \in MinLevelInt..MaxLevelInt}
             \cup {StrLevel(s) : s \in LevelStrings}
             \cup {OtherLevel}

LevelFields == {"console_level", "file_level"}

NoValidation == [done |-> FALSE, level |-> OtherLevel, warnings |-> <<>>, raised |-> FALSE]

(***************************************************************************)
(* Paths: a directory (a sequence of segments, "/" first when absolute)    *)
(* and a file name (a sequence of characters).                             *)
(***************************************************************************)
NoPath == [dir |-> <<>>, name |-> <<>>]

\* DEFAULT_LOG_FILENAME_PREFIX
FilenamePrefix == <<"k","a","r","d","o","m","e","_","l","o","g","_">>

\* time.strftime('%Y%m%d_%H%M%S')
Timestamp == <<"2","0","2","5","0","1","3","1","_","2","3","5","9","5","9">>

CwdDir == <<"/", "work">>
PlatformLogDir == <<"/", "home", "user", "state", "Kardome", "PythonApp", "log">>
\* Path.cwd() / DEFAULT_LOG_DIRECTORY_NAME
FallbackLogDir == CwdDir \o <<"logs">>

sJsonl == <<".","j","s","o","n","l">>
sLog == <<".","l","o","g">>

\* index of the last "." of a name, 0 when it has none
RECURSIVE LastDot(_)
LastDot(name) ==
    IF name = <<>> THEN 0
    ELSE IF name[Len(name)] = "." THEN Len(name)
    ELSE LastDot(SubSeq(name, 1, Len(name) - 1))

\* PurePath.suffix: from the last dot on, unless the dot starts or ends the name
Suffix(name) ==
    IF LastDot(name) > 1 /\ LastDot(name) < Len(name)
    THEN SubSeq(name, LastDot(name), Len(name))
    ELSE <<>>

\* PurePath.with_suffix: the old suffix, if any, is replaced
WithSuffix(p, suffix) ==
    [p EXCEPT !.name = SubSeq(@, 1, Len(@) - Len(Suffix(@))) \o suffix]

\* Path.resolve(): a relative path is taken from the working directory
Resolve(p) == IF p.dir # <<>> /\ Head(p.dir) = "/" THEN p ELSE [p EXCEPT !.dir = CwdDir \o @]

\* default_suffix of setup_logging
DefaultSuffixSwapped(serialize) == IF serialize THEN sLog ELSE sJsonl

DefaultSuffix(serialize) == IF serialize THEN sJsonl ELSE sLog

\* _get_default_log_file_path: the stem in the platform directory, else in
\* ./logs, else LoggerSetupError
DefaultLogFilePath(env) ==
    IF env.platformOK THEN [ok |-> TRUE, path |-> [dir |-> PlatformLogDir, name |-> FilenamePrefix \o Timestamp]]
    ELSE IF env.cwdOK THEN [ok |-> TRUE, path |-> [dir |-> FallbackLogDir, name |-> FilenamePrefix \o Timestamp]]
    ELSE [ok |-> FALSE, path |-> NoPath]

(***************************************************************************)
(* LoggerConfig                                                            *)
(***************************************************************************)
\* log_file_path: False, None, a str or Path, or a value of another type
PathDisabled == [kind |-> "disabled", path |-> NoPath]
PathUnset == [kind |-> "unset", path |-> NoPath]
PathBadType == [kind |-> "badtype", path |-> NoPath]
PathGiven(p) == [kind |-> "path", path |-> p]

\* DEFAULT_LOGGER_CONFIG
DefaultConfig ==
    [console_level |-> IntLevel(INFO),
     file_level |-> IntLevel(DEBUG),
     use_rich_console |-> TRUE,
     use_simple_tracebacks |-> FALSE,
     show_locals_on_exception |-> FALSE,
     log_file_path |-> PathUnset,
     log_file_serialize |-> TRUE,
     format_has_extra |-> FALSE]

\* LoggerConfig.__post_init__
PostInit(c) ==
    [c EXCEPT !.console_level = ValidateLevel("console_level", @).level,
              !.file_level = ValidateLevel("file_level", @).level]


(***************************************************************************)
(* Handlers of the logging root and sinks of the loguru backend.           *)
(***************************************************************************)
\* LoguruInterceptHandler(): level NOTSET
BridgeHandler == [kind |-> "bridge", level |-> NOTSET, filter |-> FALSE,
                  richTB |-> FALSE, locals |-> FALSE]

\* the StreamHandler logging.basicConfig() attaches when a module-level logging
\* call finds the root logger without handlers
StreamHandler == [kind |-> "stream", level |-> NOTSET, filter |-> FALSE,
                  richTB |-> FALSE, locals |-> FALSE]

\* loguru's pre-installed stderr sink, handler id 0
DefaultSink == [kind |-> "console", level |-> DEBUG, serialize |-> FALSE,
                extra |-> FALSE, path |-> NoPath, id0 |-> TRUE]

\* logging._checkLevel: an int as it is, a str when it is a level name as
\* written, anything else raises
CheckLevel(level) ==
    CASE level.k = "int" -> [ok |-> TRUE, n |-> level.n]
      [] level.k = "str" /\ IsLevelName(level.s) -> [ok |-> TRUE, n |-> NameToLevel(level.s)]
      [] OTHER -> [ok |-> FALSE, n |-> 0]

\* the level of a loguru sink: a non-negative int, or the name of a loguru level
LoguruLevelNo(level) ==
    CASE level.k = "int" -> [ok |-> level.n >= 0, n |-> level.n]
      [] level.k = "str" /\ level.s = sTRACE -> [ok |-> TRUE, n |-> 5]
      [] level.k = "str" /\ level.s = sDEBUG -> [ok |-> TRUE, n |-> DEBUG]
      [] level.k = "str" /\ level.s = sINFO -> [ok |-> TRUE, n |-> INFO]
      [] level.k = "str" /\ level.s = sSUCCESS -> [ok |-> TRUE, n |-> 25]
      [] level.k = "str" /\ level.s = sWARNING -> [ok |-> TRUE, n |-> WARNING]
      [] level.k = "str" /\ level.s = sERROR -> [ok |-> TRUE, n |-> ERROR]
      [] level.k = "str" /\ level.s = sCRITICAL -> [ok |-> TRUE, n |-> CRITICAL]
      [] OTHER -> [ok |-> FALSE, n |-> 0]

\* min(a, b) of Python: ints by value, strs by code point, a mix raises TypeError
PyMin(a, b) ==
    CASE a.k = "int" /\ b.k = "int" -> [ok |-> TRUE, v |-> IF b.n < a.n THEN b ELSE a]
      [] a.k = "str" /\ b.k = "str" -> [ok |-> TRUE, v |-> IF StrLess(b.s, a.s) THEN b ELSE a]
      [] OTHER -> [ok |-> FALSE, v |-> a]

(***************************************************************************)
(* Records and their dispatch through the root handlers and the sinks.     *)
(***************************************************************************)
\* a LogRecord: its level, whether it carries exception info, the keys of its
\* extra mapping, and the value getattr(record, 'suppress_console', False) has
LogRecord(levelno, hasExc, keys, suppress) ==
    [levelno |-> levelno, hasExc |-> hasExc, keys |-> keys, suppress |-> suppress]

\* SuppressConsoleFilter.filter
FilterDropsKeyed(rec) == "suppress_console" \notin rec.keys

SuppressConsoleFilter(rec) == ~rec.suppress

\* the extra keys LoguruInterceptHandler.emit hands to loguru: it forwards the
\* level, the message and the exception info, nothing else
BridgeExtraKeysForwarded(rec) == rec.keys

BridgeExtraKeys(rec) == {}

\* the extra keys a file sink writes for a forwarded record: always in
\* serialized form, in text form when the format names {extra}
PersistedKeys(sink, keys) == IF sink.serialize \/ sink.extra THEN keys ELSE {}

\* Logger.callHandlers on the root logger, and loguru's own fan-out behind the
\* bridge: how many traceback renderings and messages reach the console, how
\* many records reach a file and with which extra keys
Dispatch(rec, handlers, theSinks) ==
    LET Direct(h) == /\ h.kind \in {"rich", "stream"}
                     /\ rec.levelno >= h.level
                     /\ (h.filter => SuppressConsoleFilter(rec))
        Bridge(h) == h.kind = "bridge" /\ rec.levelno >= h.level
        ConSink(s) == s.kind = "console" /\ rec.levelno >= s.level
        FileSink(s) == s.kind = "file" /\ rec.levelno >= s.level
        direct == Len(SelectSeq(handlers, Direct))
        viaBridge == Len(SelectSeq(handlers, Bridge)) * Len(SelectSeq(theSinks, ConSink))
        files == Len(SelectSeq(handlers, Bridge)) * Len(SelectSeq(theSinks, FileSink))
    IN  [msgs |-> direct + viaBridge,
         tb |-> IF rec.hasExc THEN direct + viaBridge ELSE 0,
         fileN |-> files,
         keys |-> IF Len(SelectSeq(handlers, Bridge)) = 0 THEN {}
                  ELSE UNION {PersistedKeys(theSinks[i], BridgeExtraKeys(rec)) :
                              i \in {j \in DOMAIN theSinks : FileSink(theSinks[j])}}]

\* a record logged by a logger whose effective level is the root's: the level
\* methods check isEnabledFor first
LogAt(levelno, rootLvl, handlers, theSinks) ==
    IF levelno >= rootLvl
    THEN Dispatch(LogRecord(levelno, FALSE, {}, FALSE), handlers, theSinks)
    ELSE [msgs |-> 0, tb |-> 0, fileN |-> 0, keys |-> {}]

(***************************************************************************)
(* setup_logging, step by step.  W is the process-wide wiring.             *)
(***************************************************************************)
\* step 1: _install_rich_traceback_hook, only with rich console and rich tracebacks
InstallOrRemoveHook(h, c) ==
    IF c.use_rich_console /\ ~c.use_simple_tracebacks
    THEN [installed |-> TRUE, locals |-> c.show_locals_on_exception]
    ELSE [installed |-> FALSE, locals |-> FALSE]

InstallHook(h, c) ==
    IF c.use_rich_console /\ ~c.use_simple_tracebacks
    THEN [installed |-> TRUE, locals |-> c.show_locals_on_exception]
    ELSE h

\* step 2: actual_log_path when the path section is left.  A LoggerSetupError of
\* _get_default_log_file_path is caught there and only clears the path.
ResolveLogPath(c, env) ==
    CASE c.log_file_path.kind = "disabled" -> NoPath
      [] c.log_file_path.kind = "unset" ->
            IF DefaultLogFilePath(env).ok
            THEN WithSuffix(DefaultLogFilePath(env).path, DefaultSuffix(c.log_file_serialize))
            ELSE NoPath
      [] c.log_file_path.kind = "path" ->
            IF env.parentOK THEN Resolve(c.log_file_path.path) ELSE NoPath
      [] OTHER -> NoPath

\* step 3: min_level
MinLevel(c, path) ==
    IF path # NoPath THEN PyMin(c.console_level, c.file_level)
    ELSE [ok |-> TRUE, v |-> c.console_level]

\* _configure_root_logger: logging.setLoggerClass(logger_class)
LoggerClassKept(old) == old

SetLoggerClass(old) == "StandardLogger"

\* _configure_root_logger: the handlers of an earlier setup are removed
KeepHandlers(handlers) == handlers

RemoveHandlers(handlers) == <<>>

\* step 4: the class attributes stamped on StandardLogger
StampFlagsStale(old, c) == old

StampFlags(old, c) ==
    [showLocals |-> c.show_locals_on_exception,
     useRich |-> c.use_rich_console,
     useSimple |-> c.use_simple_tracebacks]

\* step 5: loguru_sink_handler.remove()
KeepSinks(theSinks) == theSinks

ClearSinks(theSinks) == <<>>

\* step 6: _setup_rich_console_handler and the tracebacks_show_locals assignment
RichHandlerNoFilter(n, c) ==
    [kind |-> "rich", level |-> n,
     filter |-> FALSE,
     richTB |-> ~c.use_simple_tracebacks,
     locals |-> c.show_locals_on_exception /\ ~c.use_simple_tracebacks]

RichConsoleHandler(n, c) ==
    [kind |-> "rich", level |-> n,
     filter |-> ~c.use_simple_tracebacks,
     richTB |-> ~c.use_simple_tracebacks,
     locals |-> c.show_locals_on_exception /\ ~c.use_simple_tracebacks]

\* step 6: _configure_loguru_console_sink: handler 0 is removed if it is there,
\* the stderr sink is added, and a failure of either is printed and dropped
ConsoleSinkAdded(theSinks, c) ==
    LET rest == SelectSeq(theSinks, LAMBDA s : ~s.id0)
        lvl == LoguruLevelNo(c.console_level)
    IN  IF lvl.ok
        THEN Append(rest, [kind |-> "console", level |-> lvl.n, serialize |-> FALSE,
                           extra |-> FALSE, path |-> NoPath, id0 |-> FALSE])
        ELSE rest

\* step 7: _setup_loguru_file_sink: whether loguru accepts the sink
FileSinkAccepted(c, env) == env.sinkOK /\ LoguruLevelNo(c.file_level).ok

\* the format is handed over only when the sink does not serialize
FileSinkTakesAll(c, path) ==
    [kind |-> "file", level |-> NOTSET,
     serialize |-> c.log_file_serialize,
     extra |-> ~c.log_file_serialize /\ c.format_has_extra,
     path |-> path, id0 |-> FALSE]

FileSink(c, path) ==
    [kind |-> "file", level |-> LoguruLevelNo(c.file_level).n,
     serialize |-> c.log_file_serialize,
     extra |-> ~c.log_file_serialize /\ c.format_has_extra,
     path |-> path, id0 |-> FALSE]

\* the pair returned when the file sink was refused
SinkFailureKeepsPath(path) == path

SinkFailurePath(path) == NoPath

\* _raise_critical: logging.critical() on the root logger, which first attaches
\* a StreamHandler when the root has no handler at all
AfterCritical(W) ==
    [W EXCEPT !.rootHandlers = IF @ = <<>> THEN <<StreamHandler>> ELSE @]

\* why the call has no file destination although one was asked for
Degraded(c, env, path, sinkTried) ==
    CASE c.log_file_path.kind = "unset" /\ path = NoPath -> "no_default_dir"
      [] c.log_file_path.kind = "path" /\ path = NoPath -> "parent_failed"
      [] sinkTried /\ path # NoPath /\ ~FileSinkAccepted(c, env) -> "sink_failed"
      [] OTHER -> "none"

NoError == [type |-> "none", same |-> FALSE, chained |-> "none"]

\* the outcome of a call: the pair it returned, or the step at which it raised
\* LoggerSetupError; with it, what the call was asked (pathKind, serialize) and
\* met (resolved: actual_log_path after step 2; cause)
Returned(enabled, path, resolved, c, env) ==
    [status |-> "returned", enabled |-> enabled, path |-> path,
     resolved |-> resolved, stage |-> "done",
     pathKind |-> c.log_file_path.kind, cause |-> Degraded(c, env, resolved, TRUE),
     origin |-> "none", error |-> NoError, criticalLogged |-> FALSE]

\* the exception a failing step raises: min() of a str and an int, setLevel and
\* Handler.__init__ of a name the logging module does not know
OriginOf(stage) == IF stage = "min_level" THEN "TypeError" ELSE "ValueError"

\* the except clauses of setup_logging with _raise_critical: the exception that
\* leaves the call (its type, whether it is the very object that was caught,
\* the type of its __cause__)
PropagateError(origin) == [type |-> origin, same |-> TRUE, chained |-> "none"]

EscapeError(origin) ==
    IF origin = "LoggerSetupError"
    THEN [type |-> origin, same |-> TRUE, chained |-> "none"]
    ELSE [type |-> "LoggerSetupError", same |-> FALSE, chained |-> origin]

\* logging.critical() makes a record when the root logger is enabled for CRITICAL
CriticalLogged(W) == CRITICAL >= W.rootLevel

Raised(stage, resolved, c, env, W) ==
    [status |-> "raised", enabled |-> FALSE, path |-> NoPath,
     resolved |-> NoPath, stage |-> stage,
     pathKind |-> c.log_file_path.kind, cause |-> Degraded(c, env, resolved, FALSE),
     origin |-> OriginOf(stage), error |-> EscapeError(OriginOf(stage)),
     criticalLogged |-> CriticalLogged(W)]

NoOutput == [n |-> 0, keys |-> {}]

\* steps 3 to 7 of setup_logging on wiring W, for the validated configuration c
\* and the path step 2 resolved: the wiring it leaves and its outcome
WireLogging(W, c, env, path) ==
    LET m == MinLevel(c, path)
        lv == CheckLevel(m.v)
        con == CheckLevel(c.console_level)
        accepted == path # NoPath /\ FileSinkAccepted(c, env)
        W2 == [W EXCEPT !.loggerClass = SetLoggerClass(@)]
        W3 == [W2 EXCEPT !.rootLevel = lv.n,
                         !.rootHandlers = Append(RemoveHandlers(@), BridgeHandler),
                         !.clsFlags = StampFlags(@, c),
                         !.sinks = ClearSinks(@)]
        W4 == IF c.use_rich_console
              THEN [W3 EXCEPT !.rootHandlers = Append(@, RichConsoleHandler(con.n, c))]
              ELSE [W3 EXCEPT !.sinks = ConsoleSinkAdded(@, c)]
        W5 == IF accepted THEN [W4 EXCEPT !.sinks = Append(@, FileSink(c, path))] ELSE W4
    IN  IF ~m.ok THEN [W |-> AfterCritical(W), ret |-> Raised("min_level", path, c, env, W)]
        ELSE IF ~lv.ok THEN [W |-> AfterCritical(W2), ret |-> Raised("set_level", path, c, env, W2)]
        ELSE IF c.use_rich_console /\ ~con.ok
             THEN [W |-> AfterCritical(W3), ret |-> Raised("console", path, c, env, W3)]
        ELSE [W |-> W5,
              ret |-> Returned(accepted,
                               IF accepted THEN path ELSE SinkFailurePath(path),
                               path, c, env)]

\* the last record of the call: the INFO summary of logger
\* 'standard_logger.setup', or the CRITICAL record of _raise_critical
LastSetupRecord(r) ==
    LogAt(IF r.ret.status = "returned" THEN INFO ELSE CRITICAL,
          r.W.rootLevel, r.W.rootHandlers, r.W.sinks)

(***************************************************************************)
(* Text on the error stream.  A line of the terminal is a sequence of      *)
(* cells; printing writes at the cursor and a carriage return moves the    *)
(* cursor to column 0.  Characters outside ASCII are cells named by their  *)
(* glyph.                                                                  *)
(***************************************************************************)
CR == "CR"              \* '\r'
FullBlock == "FULL"     \* U+2588
LightShade == "SHADE"   \* U+2591
Ellipsis == "ELLIPSIS"  \* U+2026
HLine == "HLINE"        \* U+2500

Max(a, b) == IF a > b THEN a ELSE b
Min(a, b) == IF a < b THEN a ELSE b

\* ch * n
RECURSIVE Repeat(_, _)
Repeat(ch, n) == IF n <= 0 THEN <<>> ELSE <<ch>> \o Repeat(ch, n - 1)

\* s[:n] for n >= 0
Prefix(s, n) == SubSeq(s, 1, IF n < Len(s) THEN n ELSE Len(s))

\* str.strip() of a string whose only whitespace is the space
RECURSIVE LStrip(_)
LStrip(s) == IF s # <<>> /\ Head(s) = " " THEN LStrip(Tail(s)) ELSE s

RECURSIVE RStrip(_)
RStrip(s) == IF s # <<>> /\ s[Len(s)] = " " THEN RStrip(SubSeq(s, 1, Len(s) - 1)) ELSE s

Strip(s) == RStrip(LStrip(s))

\* str(n) for a natural number
Digits == <<"0","1","2","3","4","5","6","7","8","9">>

RECURSIVE NatStr(_)
NatStr(n) == IF n < 10 THEN <<Digits[n + 1]>>
             ELSE NatStr(n \div 10) \o <<Digits[(n % 10) + 1]>>

\* f'{x:.1f}' for x >= 0 given in tenths
Fixed1(tenths) == NatStr(tenths \div 10) \o <<".">> \o <<Digits[(tenths % 10) + 1]>>

EmptyTerm == [line |-> <<>>, col |-> 0]

\* characters other than '\r' written at the cursor: they replace the cells
\* they cover and leave the others
WriteCells(tm, w) ==
    [line |-> SubSeq(tm.line, 1, tm.col) \o w
              \o SubSeq(tm.line, tm.col + Len(w) + 1, Len(tm.line)),
     col |-> tm.col + Len(w)]

\* print(s, end='', file=sys.stderr): the cells up to the first '\r', the
\* carriage return, then the rest
RECURSIVE WriteTerm(_, _)
WriteTerm(tm, s) ==
    IF \E i \in DOMAIN s : s[i] = CR
    THEN LET k == CHOOSE i \in DOMAIN s : s[i] = CR /\ \A j \in 1..(i - 1) : s[j] # CR
         IN  WriteTerm([WriteCells(tm, SubSeq(s, 1, k - 1)) EXCEPT !.col = 0],
                       SubSeq(s, k + 1, Len(s)))
    ELSE WriteCells(tm, s)

\* no cell of the line shows a character
IsBlank(line) == \A i \in DOMAIN line : line[i] = " "

(***************************************************************************)
(* _AsciiProgressTracker and _ascii_progress_context                       *)
(***************************************************************************)
BarWidth == 30
ScopeClearWidth == 80

\* an optional argument: None, or a value
None == [set |-> FALSE, v |-> 0]
Some(x) == [set |-> TRUE, v |-> x]
NoText == [set |-> FALSE, v |-> <<>>]

sProgress == <<"P","r","o","g","r","e","s","s">>
sProcessing == <<"P","r","o","c","e","s","s","i","n","g",".",".",".">>
sLoad == <<"L","o","a","d">>
sX == <<"x">>
SpinnerChars == <<"|", "/", "-", "\\">>

NoProgress ==
    [pc |-> "none", how |-> "none", description |-> <<>>, total |-> None,
     current |-> 0, last_len |-> 0, elapsed |-> 0, sum |-> 0, calls |-> 0,
     finalized |-> FALSE]

\* _AsciiProgressTracker.__init__
NewTracker(desc) ==
    [NoProgress EXCEPT !.pc = "open",
                       !.description = IF desc.set /\ desc.v # <<>> THEN desc.v ELSE sProgress]

\* self._current += advance
AdvanceIgnored(current, advance) == current

AdvanceCurrent(current, advance) ==
    IF advance.set THEN current + advance.v ELSE current

\* _AsciiProgressTracker.finished
Finished(tr) == tr.total.set /\ tr.current >= tr.total.v

\* math.ceil(a / b) for b > 0
CeilDiv(a, b) == (a + b - 1) \div b

\* the line update() assembles: description, bar, percentage, elapsed time
ProgressStr(tr, elapsed, spinner) ==
    LET seconds == <<"(">> \o Fixed1(elapsed) \o <<"s", ")">>
        clamped == Max(0, Min(tr.current, tr.total.v))
        filled == CeilDiv(BarWidth * clamped, tr.total.v)
        \* percent to one decimal, in tenths
        tenths == (2000 * clamped + tr.total.v) \div (2 * tr.total.v)
        bar == IF tr.total.set /\ tr.total.v > 0
               THEN <<"[">> \o Repeat(FullBlock, filled)
                            \o Repeat(LightShade, BarWidth - filled) \o <<"]">>
               ELSE IF tr.total.set /\ tr.total.v = 0
               THEN <<"[">> \o Repeat(FullBlock, BarWidth) \o <<"]">>
               ELSE <<"[", spinner, "]">>
        text == IF tr.total.set /\ tr.total.v > 0
                THEN Fixed1(tenths) \o <<"%", " ">> \o seconds
                ELSE IF tr.total.set /\ tr.total.v = 0
                THEN <<"1","0","0",".","0","%"," ">> \o seconds
                ELSE seconds
    IN  Strip(tr.description \o <<":", " ">> \o bar \o <<" ">> \o text)

\* _AsciiProgressTracker.update: the tracker and the terminal after it
TrackerUpdate(tr, tm, advance, total, description, elapsed, spinner) ==
    LET tr1 == [tr EXCEPT !.description = IF description.set THEN description.v ELSE @,
                          !.total = IF total.set THEN total ELSE @,
                          !.current = AdvanceCurrent(@, advance),
                          !.elapsed = elapsed]
        str == ProgressStr(tr1, elapsed, spinner)
    IN  [tr |-> [tr1 EXCEPT !.last_len = Len(str)],
         tm |-> WriteTerm(tm, <<CR>> \o Repeat(" ", tr.last_len) \o <<CR>> \o str)]

\* _AsciiProgressTracker.add_task
TrackerAddTask(tr, tm, description, total, elapsed, spinner) ==
    TrackerUpdate([tr EXCEPT !.description = description, !.total = total,
                             !.current = 0, !.last_len = 0],
                  tm, Some(0), None, NoText, elapsed, spinner)

\* _AsciiProgressTracker._finalize_print
FinalizePrint(tr, tm, elapsed, spinner) ==
    LET u == IF Finished(tr)
             THEN TrackerUpdate(tr, tm, Some(0), None, NoText, elapsed, spinner)
             ELSE [tr |-> tr, tm |-> tm]
    IN  [tr |-> u.tr,
         tm |-> WriteTerm(u.tm, <<CR>> \o Repeat(" ", u.tr.last_len) \o <<CR>>)]

(***************************************************************************)
(* _render_ascii_panel                                                     *)
(***************************************************************************)
DefaultAsciiPanelWidth == 78
MinCompactWidth == 18
PanelPadding == 4

LF == "LF"              \* '\n'
BoxTopLeft == "BOX_TL"      \* U+256D
BoxTopRight == "BOX_TR"     \* U+256E
BoxBottomLeft == "BOX_BL"   \* U+2570
BoxBottomRight == "BOX_BR"  \* U+256F
BoxVertical == "BOX_V"      \* U+2502
BoxTeeLeft == "BOX_L"       \* U+251C
BoxTeeRight == "BOX_R"      \* U+2524

\* str.splitlines() of a text whose only line boundary is '\n'
RECURSIVE SplitLines(_)
SplitLines(text) ==
    IF text = <<>> THEN <<>>
    ELSE IF \E i \in DOMAIN text : text[i] = LF
    THEN LET k == CHOOSE i \in DOMAIN text : text[i] = LF /\ \A j \in 1..(i - 1) : text[j] # LF
         IN  <<SubSeq(text, 1, k - 1)>> \o SplitLines(SubSeq(text, k + 1, Len(text)))
    ELSE <<text>>

\* max(len(line) for line in content_lines) if content_lines else 0
MaxContentWidth(lines) ==
    IF lines = <<>> THEN 0
    ELSE CHOOSE n \in {Len(lines[i]) : i \in DOMAIN lines} :
            \A i \in DOMAIN lines : Len(lines[i]) <= n

\* str.center(width), with the fill on the left as CPython places it
Center(s, width) ==
    IF Len(s) >= width THEN s
    ELSE LET marg == width - Len(s)
             left == (marg \div 2) + (IF marg % 2 = 1 /\ width % 2 = 1 THEN 1 ELSE 0)
         IN  Repeat(" ", left) \o s \o Repeat(" ", marg - left)

\* str.ljust(width)
LJust(s, width) == s \o Repeat(" ", width - Len(s))

\* inner_width
InnerWidth(lines, title, compact) ==
    IF compact THEN Max(Max(MaxContentWidth(lines), Len(title)), MinCompactWidth)
    ELSE DefaultAsciiPanelWidth - PanelPadding

\* target_width
TargetWidth(lines, title, compact) ==
    IF compact THEN InnerWidth(lines, title, compact) + PanelPadding
    ELSE DefaultAsciiPanelWidth

\* padded_title: the title centred, or cut and marked with an ellipsis
PaddedTitleUncut(title, inner) == Center(<<" ">> \o title \o <<" ">>, inner)

PaddedTitle(title, inner) ==
    IF Len(Center(<<" ">> \o title \o <<" ">>, inner)) > inner
    THEN LJust(<<" ">> \o Prefix(title, inner - 3) \o <<Ellipsis, " ">>, inner)
    ELSE Center(<<" ">> \o title \o <<" ">>, inner)

\* one content row
ContentRow(line, inner) ==
    <<BoxVertical, " ">>
    \o LJust(IF Len(line) > inner THEN Prefix(line, inner - 1) \o <<Ellipsis>> ELSE line,
             inner - 1)
    \o <<BoxVertical>>

\* the rows _render_ascii_panel prints for a str renderable
RenderAsciiPanel(text, title, compact) ==
    LET lines == SplitLines(text)
        inner == InnerWidth(lines, title, compact)
        target == TargetWidth(lines, title, compact)
        top == <<BoxTopLeft>> \o Repeat(HLine, target - 4) \o <<BoxTopRight>>
        bottom == <<BoxBottomLeft>> \o Repeat(HLine, target - 4) \o <<BoxBottomRight>>
        head == IF title # <<>>
                THEN << <<BoxVertical>> \o PaddedTitle(title, inner) \o <<BoxVertical>>,
                        <<BoxTeeLeft>> \o Repeat(HLine, inner) \o <<BoxTeeRight>> >>
                ELSE <<>>
    IN  <<top>> \o head \o [i \in DOMAIN lines |-> ContentRow(lines[i], inner)] \o <<bottom>>

(***************************************************************************)
(* _render_ascii_rule                                                      *)
(***************************************************************************)
RulePadding == 2

\* characters[0] if characters else the default line character
RuleChar(characters) == IF characters # <<>> THEN characters[1] ELSE HLine

\* the title is too long for a rule around it
RuleNeverDegrades(title, width) == FALSE

RuleDegrades(title, width) == Len(title) + 2 * RulePadding >= width

\* the line _render_ascii_rule prints
RenderAsciiRule(title, characters, align, width) ==
    LET char == RuleChar(characters)
        pad == Repeat(" ", RulePadding)
        total == width - Len(title) - 2 * RulePadding
        left == total \div 2
        output == CASE align = "left" -> pad \o title \o pad \o Repeat(char, total)
                    [] align = "right" -> Repeat(char, total) \o pad \o title \o pad
                    [] OTHER -> Repeat(char, left) \o pad \o title \o pad
                                \o Repeat(char, total - left)
    IN  IF title = <<>> THEN Repeat(char, width)
        ELSE IF RuleDegrades(title, width) THEN Center(title, width)
        ELSE Prefix(output, width)

\* nothing rendered yet
NoPanelInput == [content |-> <<>>, title |-> <<>>, compact |-> FALSE]
NoRuleInput == [title |-> <<>>, characters |-> <<>>, align |-> "center", width |-> 0]
NoRender == [done |-> FALSE, rows |-> <<>>]

(***************************************************************************)
(* logging.getLogger: the manager makes a logger of the installed class    *)
(* the first time a name is asked for and hands out the same object ever   *)
(* after; the root logger exists from the import of the logging module.    *)
(* era notes when the logger was made: before any setup_logging call, by a *)
(* setup_logging call, after a call that returned, or after one that       *)
(* raised.                                                                 *)
(***************************************************************************)
RootName == "root"
SetupLoggerName == "standard_logger.setup"
LoggerNames == {RootName, SetupLoggerName, "app", "app.db"}

Absent == [cls |-> "absent", era |-> "none"]

InitialLoggers ==
    [n \in LoggerNames |-> IF n = RootName THEN [cls |-> "RootLogger", era |-> "before"]
                           ELSE Absent]

NoLookup == [done |-> FALSE, name |-> RootName, cls |-> "none", era |-> "none",
             afterSetup |-> FALSE]

\* Manager.getLogger: an existing logger is kept as it is
WithLogger(all, name, class, era) ==
    IF all[name] = Absent THEN [all EXCEPT ![name] = [cls |-> class, era |-> era]]
    ELSE all

(***************************************************************************)
(* The call stack at LoguruInterceptHandler.emit, innermost frame first,   *)
(* and the frame loguru reports for the record the bridge forwards.  A     *)
(* frame is named by the file its code is in: "bridge" is                  *)
(* logger_internals.py, "facade" is logger.py, "logging" is the logging    *)
(* module, "user" is the caller's code.                                    *)
(***************************************************************************)
MaxNesting == 5

Frame(file, fn) == [file |-> file, fn |-> fn]

\* emit and the frames of the logging module that lead to it
DispatchFrames ==
    <<Frame("bridge", "emit"), Frame("logging", "Handler.handle"),
      Frame("logging", "callHandlers"), Frame("logging", "Logger.handle"),
      Frame("logging", "Logger._log")>>

EntryPoints == {"debug", "info", "warning", "error", "critical", "exception"}

\* the frames of the facade: StandardLogger._log below the method that was
\* called; the warning about a malformed exc_info is logged by self.warning
\* from inside exception
FacadeFrames(entry) ==
    IF entry = "exception_warning"
    THEN <<Frame("facade", "_log"), Frame("facade", "warning"), Frame("facade", "exception")>>
    ELSE <<Frame("facade", "_log"), Frame("facade", entry)>>

\* the methods of logging.Logger log through Logger._log themselves;
\* Logger.exception calls Logger.error
PlainFrames(entry) ==
    IF entry = "exception"
    THEN <<Frame("logging", "error"), Frame("logging", "exception")>>
    ELSE <<Frame("logging", entry)>>

\* the caller's frames: the call site first, then its callers
UserFrames(n) == [i \in 1..n |-> Frame("user", IF i = 1 THEN "call_site" ELSE "caller")]

CallStack(cls, entry, nesting) ==
    DispatchFrames
        \o (IF cls = "StandardLogger" THEN FacadeFrames(entry) ELSE PlainFrames(entry))
        \o UserFrames(nesting)

\* the position in the stack of the frame logging.currentframe() returns to
\* emit: sys._getframe(1), emit's own frame, from Python 3.11 on;
\* sys._getframe(3), the frame of callHandlers, before
Interpreters == {"3.10", "3.11"}

\* the interpreter of the other specifications
ThisInterpreter == "3.11"

CurrentFrame(version) == IF version = "3.11" THEN 1 ELSE 3

\* emit: depth starts at 2 and grows by one for every frame of the logging
\* module the walk leaves
RECURSIVE WalkDepth(_, _, _)
WalkDepth(stack, pos, depth) ==
    IF pos <= Len(stack) /\ stack[pos].file = "logging"
    THEN WalkDepth(stack, pos + 1, depth + 1)
    ELSE depth

BridgeDepth(stack, version) == WalkDepth(stack, CurrentFrame(version), 2)

\* loguru's opt(depth=d).log(...) reports the frame d frames above the one
\* that called log(), which is emit
LoguruFrame(stack, depth) ==
    IF depth + 1 <= Len(stack) THEN stack[depth + 1] ELSE Frame("none", "none")

\* the position of the user's call site: the first frame of the caller's code
CallSite(stack) == CHOOSE i \in DOMAIN stack :
                       stack[i].file = "user" /\ \A j \in 1..(i - 1) : stack[j].file # "user"

NoSite == [done |-> FALSE, cls |-> "none", entry |-> "none", stack |-> <<>>,
           depth |-> 0, reported |-> Frame("none", "none"), callSite |-> 0]

\* an exception() call whose record has not been dispatched yet
NoPending == [pc |-> "idle", hasExc |-> FALSE, manual |-> FALSE, suppress |-> FALSE,
              raced |-> FALSE, dispatchTB |-> 0, manualTB |-> 0, admitted |-> FALSE,
              wiredManual |-> FALSE]

(***************************************************************************)
(* The state before the first setup_logging call.                          *)
(***************************************************************************)
World == [rootLevel |-> rootLevel, rootHandlers |-> rootHandlers,
          loggerClass |-> loggerClass, sinks |-> sinks,
          clsFlags |-> clsFlags, hook |-> hook]

NoCall == [op |-> "none", inst |-> "new", hasExc |-> FALSE, suppress |-> FALSE,
           dispatchTB |-> 0, manualTB |-> 0, locals |-> FALSE, localsFrom |-> "none",
           branch |-> "none", logExtra |-> {}, given |-> "absent",
           levelno |-> NOTSET, msgs |-> 0, errorToFile |-> 0]

NoSetup == [status |-> "none", enabled |-> FALSE, path |-> NoPath, resolved |-> NoPath,
            stage |-> "none", pathKind |-> "none", cause |-> "none",
            origin |-> "none", error |-> NoError, criticalLogged |-> FALSE]

InitWiring ==
    /\ rootLevel = WARNING
    /\ rootHandlers = <<>>
    /\ loggerClass = "Logger"
    /\ sinks = <<DefaultSink>>
    /\ clsFlags = [showLocals |-> FALSE, useRich |-> TRUE, useSimple |-> FALSE]
    /\ hook = [installed |-> FALSE, locals |-> FALSE]
    /\ cfg = DefaultConfig
    /\ ret = NoSetup
    /\ nOk = 0
    /\ lastCall = NoCall
    /\ fileOut = NoOutput
    /\ loggers = InitialLoggers
    /\ lookup = NoLookup
    /\ site = NoSite
    /\ pending = NoPending

\* no progress scope entered, nothing rendered
InitIdle ==
    /\ prog = NoProgress
    /\ term = EmptyTerm
    /\ panelIn = NoPanelInput
    /\ panelOut = NoRender
    /\ ruleIn = NoRuleInput
    /\ ruleOut = NoRender

Init ==
    /\ InitWiring
    /\ vIn = [field |-> "console_level", level |-> OtherLevel]
    /\ vOut = NoValidation
    /\ InitIdle
    /\ py = ThisInterpreter

(***************************************************************************)
(* setup_logging(config)                                                   *)
(***************************************************************************)
Setup(c0, env) ==
    \E c \in {PostInit(c0)} :
    \E W1 \in {[World EXCEPT !.hook = InstallHook(@, c)]} :
    \E path \in {ResolveLogPath(c, env)} :
    \E r \in {WireLogging(W1, c, env, path)} :
    \E out \in {LastSetupRecord(r)} :
        /\ rootLevel' = r.W.rootLevel
        /\ rootHandlers' = r.W.rootHandlers
        /\ loggerClass' = r.W.loggerClass
        /\ sinks' = r.W.sinks
        /\ clsFlags' = r.W.clsFlags
        /\ hook' = r.W.hook
        /\ ret' = r.ret
        /\ cfg' = IF r.ret.status = "returned" THEN c ELSE cfg
        /\ nOk' = IF r.ret.status = "returned" /\ nOk < MaxOk THEN nOk + 1 ELSE nOk
        /\ lastCall' = [NoCall EXCEPT !.op = "setup"]
        /\ fileOut' = [n |-> out.fileN, keys |-> out.keys]
        /\ loggers' = IF r.ret.status = "returned"
                       THEN WithLogger(loggers, SetupLoggerName, r.W.loggerClass, "setup")
                       ELSE loggers
        /\ pending' = IF pending.pc = "decided" THEN [pending EXCEPT !.raced = TRUE]
                       ELSE pending
        /\ UNCHANGED <<py, site, vIn, vOut, progressVars, renderVars, lookup>>

(***************************************************************************)
(* StandardLogger.exception                                                *)
(***************************************************************************)
\* the exc_info argument: True with or without an exception being handled, a
\* valid triple, a malformed tuple
ExcInfoInputs == {"ambient", "no_ambient", "triple", "bad_tuple"}

\* has_exception: actual_exc_info[0] is not None
HasException(excInfo) == excInfo \in {"ambient", "triple"}

\* should_print_manual_rich_tb
ManualPrintAlways(flags) == TRUE

ShouldPrintManual(flags) == flags.useRich /\ ~flags.useSimple

\* log_extra['suppress_console']
SuppressNever(hasExc, manual) == FALSE

SuppressValue(hasExc, manual) == hasExc /\ manual

\* the key exception() uses to tell the console handler to drop a record
SuppressKey == "suppress_console"

\* the caller's extra mapping: none, or one with the key set either way
ExtraInputs ==
    {[k \in {} |-> TRUE]}
        \cup {[k \in {"user_id", SuppressKey} |-> IF k = SuppressKey THEN v ELSE TRUE] :
                 v \in BOOLEAN}

\* log_extra: a copy of the caller's mapping with the key assigned last
LogExtraKeepsCaller(extra, value) ==
    [k \in DOMAIN extra \cup {SuppressKey} |-> IF k \in DOMAIN extra THEN extra[k] ELSE value]

LogExtra(extra, value) ==
    [k \in DOMAIN extra \cup {SuppressKey} |-> IF k = SuppressKey THEN value ELSE extra[k]]

\* what the caller's mapping says about the key
Given(extra) ==
    IF SuppressKey \notin DOMAIN extra THEN "absent"
    ELSE IF extra[SuppressKey] THEN "true" ELSE "false"

\* show_locals: None, or the caller's override
ShowLocalsInputs == {"unset", "yes", "no"}

Exception(who, excInfo, extra, showLocals) ==
    \E manual \in {ShouldPrintManual(clsFlags)}, hasExc \in {HasException(excInfo)} :
    \E warned \in {IF excInfo = "bad_tuple"
                    THEN LogAt(WARNING, rootLevel, rootHandlers, sinks)
                    ELSE LogAt(NOTSET, CRITICAL, <<>>, <<>>)} :
    \E logExtra \in {LogExtra(extra, SuppressValue(hasExc, manual))} :
    \E rec \in {LogRecord(ERROR, hasExc, DOMAIN logExtra, logExtra[SuppressKey])} :
    \E d \in {Dispatch(rec, rootHandlers, sinks)}, printed \in {hasExc /\ manual} :
        /\ lastCall' = [op |-> "exception", inst |-> who, hasExc |-> hasExc,
                        suppress |-> rec.suppress,
                        dispatchTB |-> d.tb,
                        manualTB |-> IF printed THEN 1 ELSE 0,
                        locals |-> /\ printed
                                   /\ IF showLocals = "unset" THEN clsFlags.showLocals
                                      ELSE showLocals = "yes",
                        localsFrom |-> IF ~printed THEN "none"
                                       ELSE IF showLocals = "unset" THEN "class"
                                       ELSE "argument",
                        branch |-> IF manual THEN "rich" ELSE "dispatch",
                        logExtra |-> {}, given |-> Given(extra),
                        levelno |-> ERROR, msgs |-> d.msgs,
                        errorToFile |-> d.fileN]
        /\ fileOut' = [n |-> warned.fileN + d.fileN, keys |-> warned.keys \cup d.keys]
        /\ UNCHANGED <<callVars, rootLevel, rootHandlers, loggerClass, sinks, clsFlags, hook,
                       cfg, ret, nOk, vIn, vOut, progressVars, renderVars, loggers, lookup>>

(***************************************************************************)
(* StandardLogger.debug, .info, .warning, .error and .critical              *)
(***************************************************************************)
\* the levels of the severity methods the model calls
SeverityLevels == {DEBUG, ERROR, CRITICAL}

\* the keys of the extra mapping a caller hands to a severity method
LogExtraInputs == {{}, {"user_id"}, {"user_id", "request_id"}}

\* isEnabledFor(level) on a logger that takes its level from the root
IsEnabledFor(levelno) == levelno >= rootLevel

\* logExtra is the caller's extra mapping of a record that was dispatched
Log(who, levelno, extra) ==
    \E d \in {IF IsEnabledFor(levelno)
               THEN Dispatch(LogRecord(levelno, FALSE, extra, FALSE), rootHandlers, sinks)
               ELSE [msgs |-> 0, tb |-> 0, fileN |-> 0, keys |-> {}]} :
        /\ lastCall' = [NoCall EXCEPT !.op = "log", !.inst = who,
                                      !.branch = IF IsEnabledFor(levelno) THEN "dispatch"
                                                 ELSE "dropped",
                                      !.logExtra = IF IsEnabledFor(levelno) THEN extra ELSE {},
                                      !.levelno = levelno, !.msgs = d.msgs]
        /\ fileOut' = [n |-> d.fileN, keys |-> d.keys]
        /\ UNCHANGED <<callVars, rootLevel, rootHandlers, loggerClass, sinks, clsFlags, hook,
                       cfg, ret, nOk, vIn, vOut, progressVars, renderVars, loggers, lookup>>

(***************************************************************************)
(* Logger.log(level, msg, exc_info=..., extra=...), which the facade        *)
(* inherits: isEnabledFor, then StandardLogger._log.  given says whether    *)
(* the caller's extra mapping has the suppression key, and with which value *)
(***************************************************************************)
GivenInputs == {"absent", "true", "false"}

LogWith(levelno, hasExc, given) ==
    \E rec \in {LogRecord(levelno, hasExc,
                           IF given = "absent" THEN {} ELSE {SuppressKey},
                           given = "true")} :
    \E d \in {IF IsEnabledFor(levelno) THEN Dispatch(rec, rootHandlers, sinks)
               ELSE [msgs |-> 0, tb |-> 0, fileN |-> 0, keys |-> {}]} :
        /\ lastCall' = [NoCall EXCEPT !.op = "record",
                                      !.hasExc = hasExc,
                                      !.suppress = rec.suppress,
                                      !.dispatchTB = d.tb,
                                      !.branch = IF IsEnabledFor(levelno) THEN "dispatch"
                                                 ELSE "dropped",
                                      !.given = given,
                                      !.levelno = levelno, !.msgs = d.msgs]
        /\ fileOut' = [n |-> d.fileN, keys |-> d.keys]
        /\ UNCHANGED <<callVars, rootLevel, rootHandlers, loggerClass, sinks, clsFlags, hook,
                       cfg, ret, nOk, vIn, vOut, progressVars, renderVars, loggers, lookup>>

(***************************************************************************)
(* StandardLogger.panel, .rule and .progress: the backend each call takes  *)
(***************************************************************************)
RenderBackend(flags) == IF flags.useRich THEN "rich" ELSE "ascii"

Present(who, op) ==
    /\ lastCall' = [NoCall EXCEPT !.op = op, !.inst = who,
                                  !.branch = RenderBackend(clsFlags)]
    /\ fileOut' = NoOutput
    /\ UNCHANGED <<callVars, rootLevel, rootHandlers, loggerClass, sinks, clsFlags, hook,
                   cfg, ret, nOk, vIn, vOut, progressVars, renderVars, loggers, lookup>>

Panel(who) == Present(who, "panel")
Rule(who) == Present(who, "rule")
Progress(who) == Present(who, "progress")

\* a facade instance made before the latest setup_logging call, or after it
Instances == {"old", "new"}

(***************************************************************************)
(* What is installed: the bridge handlers on the root, the console outputs *)
(* (root handlers that write to the console, loguru console sinks), the    *)
(* file sinks.                                                             *)
(***************************************************************************)
IsBridge(h) == h.kind = "bridge"
IsConsoleHandler(h) == h.kind \in {"rich", "stream"}
IsConsoleSink(s) == s.kind = "console"
IsFileSink(s) == s.kind = "file"

BridgeCount == Len(SelectSeq(rootHandlers, IsBridge))
ConsoleCount == Len(SelectSeq(rootHandlers, IsConsoleHandler)) + Len(SelectSeq(sinks, IsConsoleSink))
FileSinkCount == Len(SelectSeq(sinks, IsFileSink))

\* some installed console output takes records of this level
ConsoleAdmits(levelno) ==
    \/ \E i \in DOMAIN rootHandlers :
          IsConsoleHandler(rootHandlers[i]) /\ rootHandlers[i].level <= levelno
    \/ \E i \in DOMAIN sinks : IsConsoleSink(sinks[i]) /\ sinks[i].level <= levelno

(***************************************************************************)
(* Spec: setups and facade calls in any order, with file logging on.  The  *)
(* configurations vary the console and file levels, the renderer, the      *)
(* traceback style, the show-locals flag and the file format (serialized,  *)
(* or text with a format that names {extra}).                              *)
(***************************************************************************)
AllOK == [platformOK |-> TRUE, cwdOK |-> TRUE, parentOK |-> TRUE, sinkOK |-> TRUE]

FacadeConfigs ==
    [console_level : {IntLevel(INFO), IntLevel(CRITICAL)},
     file_level : {IntLevel(DEBUG), IntLevel(CRITICAL)},
     use_rich_console : BOOLEAN,
     use_simple_tracebacks : BOOLEAN,
     show_locals_on_exception : BOOLEAN,
     log_file_path : {PathUnset},
     log_file_serialize : BOOLEAN,
     format_has_extra : {TRUE}]

SetupStep == \E c \in FacadeConfigs : Setup(c, AllOK)

ExceptionStep ==
    \E who \in Instances, e \in ExcInfoInputs, x \in ExtraInputs, l \in ShowLocalsInputs :
        /\ who = "old" => ret.status # "none"
        /\ Exception(who, e, x, l)

LogStep ==
    \E who \in Instances, l \in SeverityLevels, x \in LogExtraInputs :
        /\ who = "old" => ret.status # "none"
        /\ Log(who, l, x)

PanelStep == \E who \in Instances : (who = "old" => ret.status # "none") /\ Panel(who)

RuleStep == \E who \in Instances : (who = "old" => ret.status # "none") /\ Rule(who)

ProgressStep == \E who \in Instances : (who = "old" => ret.status # "none") /\ Progress(who)

Next == SetupStep \/ ExceptionStep \/ LogStep \/ PanelStep \/ RuleStep \/ ProgressStep

Spec == Init /\ [][Next]_vars

(***************************************************************************)
(* SpecSetup: setup_logging calls alone, over every file-path policy and   *)
(* every answer of the file system and of the sink, with int and str       *)
(* levels, the rich and the plain console, rich tracebacks.                *)
(***************************************************************************)
UserPath == [dir |-> <<"out">>, name |-> <<"a","p","p",".","t","x","t">>]

SetupConfigs ==
    [console_level : {IntLevel(INFO), StrLevel(sdebug), StrLevel(sverbose)},
     file_level : {IntLevel(DEBUG), IntLevel(CRITICAL), StrLevel(sDEBUG)},
     use_rich_console : BOOLEAN,
     use_simple_tracebacks : {FALSE},
     show_locals_on_exception : {FALSE},
     log_file_path : {PathDisabled, PathUnset, PathBadType, PathGiven(UserPath)},
     log_file_serialize : BOOLEAN,
     format_has_extra : {FALSE}]

\* the answers that matter to a configuration: the two default directories and
\* the sink for an unset path, the parent directory and the sink for a given one
SetupEnvs(c) ==
    CASE c.log_file_path.kind = "unset" ->
            {AllOK, [AllOK EXCEPT !.platformOK = FALSE],
             [AllOK EXCEPT !.platformOK = FALSE, !.cwdOK = FALSE],
             [AllOK EXCEPT !.sinkOK = FALSE],
             [AllOK EXCEPT !.platformOK = FALSE, !.sinkOK = FALSE]}
      [] c.log_file_path.kind = "path" ->
            {AllOK, [AllOK EXCEPT !.parentOK = FALSE], [AllOK EXCEPT !.sinkOK = FALSE]}
      [] OTHER -> {AllOK}

SetupAnyStep == \E c \in SetupConfigs : \E env \in SetupEnvs(c) : Setup(c, env)

SpecSetup == Init /\ [][SetupAnyStep]_vars

(***************************************************************************)
(* SpecValidate: LoggerConfig(...) validating one level field.             *)
(***************************************************************************)
InitValidate ==
    /\ InitWiring
    /\ vIn \in [field : LevelFields, level : RawLevels]
    /\ vOut = NoValidation
    /\ InitIdle
    /\ py = ThisInterpreter

Validate ==
    /\ ~vOut.done
    /\ \E r \in {ValidateLevel(vIn.field, vIn.level)} :
          vOut' = [done |-> TRUE, level |-> r.level, warnings |-> r.warnings,
                   raised |-> r.raised]
    /\ UNCHANGED <<callVars, vIn, setupVars, progressVars, renderVars>>

SpecValidate == InitValidate /\ [][Validate]_vars

(***************************************************************************)
(* SpecProgress: one fallback progress scope: entered, any add_task and    *)
(* update calls, then left normally or by an exception of the body.        *)
(***************************************************************************)
DescriptionInputs == {sX, sLoad}
TotalInputs == {None, Some(0), Some(2)}
AdvanceInputs == {None, Some(1), Some(2)}
ElapsedInputs == {0, 125}

\* time.monotonic() does not go back
Clock == {e \in ElapsedInputs : e >= prog.elapsed}

Spinners == {SpinnerChars[i] : i \in DOMAIN SpinnerChars}

\* _ascii_progress_context up to the yield
ProgressEnter ==
    /\ prog.pc = "none"
    /\ \E desc \in {NoText, Some(sProcessing)} :
          /\ prog' = NewTracker(desc)
          /\ term' = WriteTerm(term, <<CR>> \o Repeat(" ", ScopeClearWidth) \o <<CR>>)
    /\ UNCHANGED <<callVars, setupVars, vIn, vOut, renderVars>>

ProgressAddTask ==
    /\ prog.pc = "open" /\ prog.calls < MaxCalls
    /\ \E desc \in DescriptionInputs, total \in TotalInputs, e \in Clock, sp \in Spinners :
       \E r \in {TrackerAddTask(prog, term, desc, total, e, sp)} :
          /\ prog' = [r.tr EXCEPT !.calls = @ + 1, !.sum = 0]
          /\ term' = r.tm
    /\ UNCHANGED <<callVars, setupVars, vIn, vOut, renderVars>>

ProgressUpdate ==
    /\ prog.pc = "open" /\ prog.calls < MaxCalls
    /\ \E adv \in AdvanceInputs, total \in {None, Some(3)}, desc \in {NoText, Some(sX)},
          e \in Clock, sp \in Spinners :
       \E r \in {TrackerUpdate(prog, term, adv, total, desc, e, sp)} :
          /\ prog' = [r.tr EXCEPT !.calls = @ + 1,
                                  !.sum = IF adv.set THEN @ + adv.v ELSE @]
          /\ term' = r.tm
    /\ UNCHANGED <<callVars, setupVars, vIn, vOut, renderVars>>

\* the finally clause of _ascii_progress_context
ProgressExit ==
    /\ prog.pc = "open"
    /\ \E how \in {"normal", "exception"}, e \in Clock, sp \in Spinners :
       \E r \in {FinalizePrint(prog, term, e, sp)} :
          /\ prog' = [r.tr EXCEPT !.pc = "exited", !.how = how, !.finalized = TRUE]
          /\ term' = r.tm
    /\ UNCHANGED <<callVars, setupVars, vIn, vOut, renderVars>>

NextProgress == ProgressEnter \/ ProgressAddTask \/ ProgressUpdate \/ ProgressExit

SpecProgress == Init /\ [][NextProgress]_vars

(***************************************************************************)
(* SpecPanel: one fallback panel rendered for a text and a title.          *)
(***************************************************************************)
\* a text of n characters
Text(n) == [i \in 1..n |-> Digits[(i % 10) + 1]]

TitleLens == {0, 3, 16, 17, 18, 19} \cup (72..MaxTitleLen)
LineLens == {0, 5, 17, 18, 19, 20} \cup (73..MaxLineLen)

\* one line, or two lines the second of which is short
PanelContents ==
    {Text(n) : n \in LineLens} \cup {Text(n) \o <<LF>> \o Text(2) : n \in {0, 19, MaxLineLen}}

InitPanel ==
    /\ InitWiring
    /\ py = ThisInterpreter
    /\ vIn = [field |-> "console_level", level |-> OtherLevel]
    /\ vOut = NoValidation
    /\ prog = NoProgress
    /\ term = EmptyTerm
    /\ panelIn \in [content : PanelContents, title : {Text(n) : n \in TitleLens},
                    compact : BOOLEAN]
    /\ panelOut = NoRender
    /\ ruleIn = NoRuleInput
    /\ ruleOut = NoRender

RenderPanel ==
    /\ ~panelOut.done
    /\ panelOut' = [done |-> TRUE,
                    rows |-> RenderAsciiPanel(panelIn.content, panelIn.title, panelIn.compact)]
    /\ UNCHANGED <<callVars, setupVars, vIn, vOut, progressVars, panelIn, ruleIn, ruleOut>>

SpecPanel == InitPanel /\ [][RenderPanel]_vars

(***************************************************************************)
(* SpecRule: one fallback rule printed for a title, a fill, an alignment   *)
(* and a terminal width.                                                   *)
(***************************************************************************)
\* titles of every length, and one that holds the fill character itself
RuleTitles == {Text(n) : n \in 0..MaxRuleTitle} \cup {Text(7) \o <<"-">>}

RuleFills == {<<>>, <<"-">>, <<"=", "*">>}
RuleAligns == {"center", "left", "right", "full"}
TermWidths == {10, 11}

InitRule ==
    /\ InitWiring
    /\ py = ThisInterpreter
    /\ vIn = [field |-> "console_level", level |-> OtherLevel]
    /\ vOut = NoValidation
    /\ prog = NoProgress
    /\ term = EmptyTerm
    /\ panelIn = NoPanelInput
    /\ panelOut = NoRender
    /\ ruleIn \in [title : RuleTitles, characters : RuleFills, align : RuleAligns,
                   width : TermWidths]
    /\ ruleOut = NoRender

RenderRule ==
    /\ ~ruleOut.done
    /\ ruleOut' = [done |-> TRUE,
                   rows |-> <<RenderAsciiRule(ruleIn.title, ruleIn.characters,
                                              ruleIn.align, ruleIn.width)>>]
    /\ UNCHANGED <<callVars, setupVars, vIn, vOut, progressVars, panelIn, panelOut, ruleIn>>

SpecRule == InitRule /\ [][RenderRule]_vars

(***************************************************************************)
(* SpecLookup: logging.getLogger calls before, between and after           *)
(* setup_logging calls, some of which raise.                               *)
(***************************************************************************)
LookupConfigs ==
    {c \in SetupConfigs : /\ c.log_file_path = PathDisabled
                          /\ c.file_level = IntLevel(DEBUG)
                          /\ ~c.log_file_serialize}

\* when a logger made now is made
Era == CASE ret.status = "none" -> "before"
         [] ret.status = "returned" -> "after"
         [] OTHER -> "between"

\* logging.getLogger(name)
GetLogger(name) ==
    \E all \in {WithLogger(loggers, name, loggerClass, Era)} :
        /\ loggers' = all
        /\ lookup' = [done |-> TRUE, name |-> name, cls |-> all[name].cls,
                      era |-> all[name].era, afterSetup |-> ret.status = "returned"]
        /\ UNCHANGED <<callVars, rootLevel, rootHandlers, loggerClass, sinks, clsFlags, hook, cfg,
                       ret, nOk, lastCall, fileOut, vIn, vOut, progressVars, renderVars>>

SetupLookupStep == \E c \in LookupConfigs : Setup(c, AllOK)

GetLoggerStep == \E name \in LoggerNames : GetLogger(name)

NextLookup == SetupLookupStep \/ GetLoggerStep

SpecLookup == Init /\ [][NextLookup]_vars

(***************************************************************************)
(* SpecCallSite: one record reaches the bridge from each entry point of    *)
(* the facade or of a plain logging.Logger, from user code of some call    *)
(* depth, under either interpreter.                                        *)
(***************************************************************************)
LoggerClasses == {"StandardLogger", "Logger"}

\* LoguruInterceptHandler.emit for the record of one logging call
Emit(cls, entry, nesting) ==
    \E stack \in {CallStack(cls, entry, nesting)} :
    \E depth \in {BridgeDepth(stack, py)} :
        /\ site' = [done |-> TRUE, cls |-> cls, entry |-> entry, stack |-> stack,
                    depth |-> depth, reported |-> LoguruFrame(stack, depth),
                    callSite |-> CallSite(stack)]
        /\ UNCHANGED <<py, pending, setupVars, vIn, vOut, progressVars, renderVars>>

InitCallSite ==
    /\ InitWiring
    /\ vIn = [field |-> "console_level", level |-> OtherLevel]
    /\ vOut = NoValidation
    /\ InitIdle
    /\ py \in Interpreters

EmitStep ==
    \E cls \in LoggerClasses, nesting \in 1..MaxNesting :
    \E entry \in EntryPoints \cup (IF cls = "StandardLogger" THEN {"exception_warning"} ELSE {}) :
        Emit(cls, entry, nesting)

SpecCallSite == InitCallSite /\ [][EmitStep]_vars

(***************************************************************************)
(* SpecFilter: setups with either console and either traceback style, and  *)
(* records of every level with and without the suppression key.            *)
(***************************************************************************)
FilterConfigs ==
    [console_level : {IntLevel(INFO), IntLevel(CRITICAL)},
     file_level : {IntLevel(DEBUG)},
     use_rich_console : BOOLEAN,
     use_simple_tracebacks : BOOLEAN,
     show_locals_on_exception : {FALSE},
     log_file_path : {PathUnset},
     log_file_serialize : {TRUE},
     format_has_extra : {FALSE}]

SetupFilterStep == \E c \in FilterConfigs : Setup(c, AllOK)

LogWithStep ==
    \E l \in {INFO, ERROR, CRITICAL}, e \in BOOLEAN, g \in GivenInputs :
        /\ ret.status = "returned"
        /\ LogWith(l, e, g)

NextFilter == SetupFilterStep \/ LogWithStep

SpecFilter == Init /\ [][NextFilter]_vars

(***************************************************************************)
(* SpecRace: an exception() call of one thread in two steps, with          *)
(* setup_logging calls of another thread between them.  The first step is  *)
(* the call up to the assignment of the suppression key (the class flags   *)
(* are read there), the second is the dispatch of the record and the       *)
(* manual print.  pending.raced notes that a setup_logging call ran        *)
(* between the two.                                                        *)
(***************************************************************************)
\* exception(), lines 618 to 643
ExcDecide(excInfo) ==
    \E manual \in {ShouldPrintManual(clsFlags)}, hasExc \in {HasException(excInfo)} :
    \E warned \in {IF excInfo = "bad_tuple"
                    THEN LogAt(WARNING, rootLevel, rootHandlers, sinks)
                    ELSE LogAt(NOTSET, CRITICAL, <<>>, <<>>)} :
        /\ pending.pc # "decided"
        /\ pending' = [NoPending EXCEPT !.pc = "decided", !.hasExc = hasExc,
                                        !.manual = manual,
                                        !.suppress = SuppressValue(hasExc, manual)]
        /\ fileOut' = [n |-> warned.fileN, keys |-> warned.keys]
        /\ UNCHANGED <<py, site, rootLevel, rootHandlers, loggerClass, sinks, clsFlags, hook,
                       cfg, ret, nOk, lastCall, vIn, vOut, progressVars, renderVars,
                       loggers, lookup>>

\* exception(), lines 645 to 661
ExcDispatch ==
    \E rec \in {LogRecord(ERROR, pending.hasExc, {SuppressKey}, pending.suppress)} :
    \E d \in {Dispatch(rec, rootHandlers, sinks)} :
        /\ pending.pc = "decided"
        /\ pending' = [pending EXCEPT !.pc = "done",
                                      !.dispatchTB = d.tb,
                                      !.manualTB = IF pending.hasExc /\ pending.manual
                                                   THEN 1 ELSE 0,
                                      !.admitted = ConsoleAdmits(ERROR),
                                      !.wiredManual = ShouldPrintManual(clsFlags)]
        /\ fileOut' = [n |-> d.fileN, keys |-> d.keys]
        /\ UNCHANGED <<py, site, rootLevel, rootHandlers, loggerClass, sinks, clsFlags, hook,
                       cfg, ret, nOk, lastCall, vIn, vOut, progressVars, renderVars,
                       loggers, lookup>>

ExcDecideStep == \E e \in ExcInfoInputs : ret.status = "returned" /\ ExcDecide(e)

NextRace == SetupFilterStep \/ ExcDecideStep \/ ExcDispatch

SpecRace == Init /\ [][NextRace]_vars

(***************************************************************************)
(* Properties.                                                             *)
(***************************************************************************)
\* an exception() call that carried exception info, made after a setup_logging
\* call that returned
ExceptionLogged ==
    /\ ret.status = "returned"
    /\ lastCall.op = "exception"
    /\ lastCall.hasExc

\* C1, as stated: an exception() call with exception info gives exactly one
\* traceback rendering: with the rich console and rich tracebacks the dispatched
\* and the manually printed renderings add up to one; with simple tracebacks
\* the one rendering comes from handler dispatch and nothing is printed manually.
C1_ExactlyOneRendering ==
    ExceptionLogged =>
        /\ (cfg.use_rich_console /\ ~cfg.use_simple_tracebacks
               => lastCall.dispatchTB + lastCall.manualTB = 1)
        /\ (cfg.use_simple_tracebacks
               => lastCall.dispatchTB = 1 /\ lastCall.manualTB = 0)

\* C1, amended: with the rich console and rich tracebacks exactly one rendering
\* is produced (the manual print; dispatch gives none); with simple tracebacks
\* nothing is printed manually and dispatch gives exactly one rendering when the
\* installed console output takes ERROR records, and none when its level is
\* above ERROR.
C1_OneRenderingWhenConsoleAdmits ==
    ExceptionLogged =>
        /\ (cfg.use_rich_console /\ ~cfg.use_simple_tracebacks
               => lastCall.dispatchTB = 0 /\ lastCall.manualTB = 1)
        /\ (cfg.use_simple_tracebacks
               => /\ lastCall.manualTB = 0
                  /\ lastCall.dispatchTB = IF ConsoleAdmits(ERROR) THEN 1 ELSE 0)

C1_Witness ==
    /\ ExceptionLogged
    /\ cfg.use_rich_console /\ ~cfg.use_simple_tracebacks
    /\ ConsoleAdmits(ERROR)
    /\ lastCall.suppress
    /\ lastCall.manualTB = 1

\* C2: after two or more setup_logging calls that returned, the last of them
\* leaves at most one console output, at most one file sink and exactly one
\* bridge handler on the root logger.
C2_WiringReplaced ==
    (ret.status = "returned" /\ nOk >= 2) =>
        /\ ConsoleCount <= 1
        /\ FileSinkCount <= 1
        /\ BridgeCount = 1

C2_Witness ==
    /\ ret.status = "returned" /\ nOk >= 2
    /\ ConsoleCount = 1 /\ FileSinkCount = 1 /\ BridgeCount = 1

\* C3: the pair setup_logging returns is consistent: file logging is reported
\* enabled exactly when a path is returned.
C3_PairConsistent ==
    ret.status = "returned" => (ret.enabled <=> ret.path # NoPath)

C3_Witness ==
    /\ ret.status = "returned"
    /\ ret.cause = "sink_failed"
    /\ ret.resolved # NoPath
    /\ ~ret.enabled /\ ret.path = NoPath

\* C4: a setup_logging call with log_file_path=False returns (False, None) and
\* leaves no file sink, whatever the other fields are.
C4_DisabledReturnsFalseNone ==
    ret.pathKind = "disabled" =>
        /\ ret.status = "returned"
        /\ ~ret.enabled /\ ret.path = NoPath
        /\ FileSinkCount = 0

\* C5: with the path unset and a usable default directory the resolved path
\* ends in .jsonl when the sink serializes and in .log when it does not; a path
\* given by the caller keeps the extension the caller wrote.
C5_Extension ==
    (ret.status = "returned" /\ ret.resolved # NoPath) =>
        /\ (ret.pathKind = "unset"
               => Suffix(ret.resolved.name) = IF cfg.log_file_serialize THEN sJsonl ELSE sLog)
        /\ (ret.pathKind = "path"
               => Suffix(ret.resolved.name) = Suffix(cfg.log_file_path.path.name))

C5_Witness ==
    /\ ret.status = "returned"
    /\ ret.pathKind = "unset"
    /\ cfg.log_file_serialize
    /\ ret.enabled
    /\ Suffix(ret.path.name) = sJsonl

\* a level the logging module knows: a level name in any letter case, or the
\* number of a level
RecognisedLevel(level) ==
    \/ level.k = "str" /\ IsLevelName(Upper(level.s))
    \/ level.k = "int" /\ IsLevelNumber(level.n)

\* C6: validating a level field never raises; a recognised level is kept as it
\* was given, with no warning; anything else is replaced by the default of the
\* field, with exactly one warning that names the field and the value given.
C6_ValidationContract ==
    vOut.done =>
        /\ ~vOut.raised
        /\ IF RecognisedLevel(vIn.level)
           THEN vOut.level = vIn.level /\ vOut.warnings = <<>>
           ELSE /\ vOut.level = DefaultLevel(vIn.field)
                /\ vOut.warnings = <<[field |-> vIn.field, value |-> vIn.level]>>

\* C7: with the path unset, setup_logging raises when neither the platform log
\* directory nor the fallback directory can be used.
C7_NoDefaultDirRaises ==
    (ret.pathKind = "unset" /\ ret.cause = "no_default_dir") => ret.status = "raised"

\* C8: a call whose parent directory cannot be made, or whose file sink is
\* refused, does not raise: it returns (False, None) with the bridge and one
\* console output installed.
C8_DegradeNeverAborts ==
    ret.cause \in {"parent_failed", "sink_failed"} =>
        /\ ret.status = "returned"
        /\ ~ret.enabled /\ ret.path = NoPath
        /\ BridgeCount = 1
        /\ ConsoleCount = 1

\* C9: every facade instance, made before or after the latest setup_logging
\* call that returned, takes the branch the flags of that call select: the
\* presentation backend by use_rich_console, the traceback path by
\* use_rich_console and use_simple_tracebacks, the locals of a manual print by
\* show_locals_on_exception unless the caller overrides it.
C9_FlagsOfLatestSetup ==
    ret.status = "returned" =>
        /\ (lastCall.op \in {"panel", "rule", "progress"}
               => lastCall.branch = IF cfg.use_rich_console THEN "rich" ELSE "ascii")
        /\ (lastCall.op = "exception"
               => lastCall.branch = IF cfg.use_rich_console /\ ~cfg.use_simple_tracebacks
                                    THEN "rich" ELSE "dispatch")
        /\ (lastCall.op = "exception" /\ lastCall.localsFrom = "class"
               => lastCall.locals = cfg.show_locals_on_exception)

C9_Witness ==
    /\ ret.status = "returned" /\ nOk >= 2
    /\ lastCall.inst = "old"
    /\ lastCall.op = "panel"
    /\ ~cfg.use_rich_console
    /\ lastCall.branch = "ascii"

\* C10: the suppress_console key is never among the extra keys a file sink
\* writes, in serialized or in text form.
C10_SuppressKeyNotPersisted == "suppress_console" \notin fileOut.keys

C10_Witness ==
    /\ lastCall.op = "exception"
    /\ lastCall.suppress
    /\ fileOut.n = 1
    /\ \E i \in DOMAIN sinks : IsFileSink(sinks[i]) /\ sinks[i].serialize

\* C11: in serialized mode a record logged through a severity method with an
\* extra mapping is written by the file sink with the keys of that mapping.
C11_ExtraPersisted ==
    (/\ lastCall.op = "log"
     /\ fileOut.n >= 1
     /\ \A i \in DOMAIN sinks : IsFileSink(sinks[i]) => sinks[i].serialize)
        => lastCall.logExtra \subseteq fileOut.keys

\* C12: in the fallback progress tracker the current amount is the sum of the
\* advance values passed since the tracker was made or since the latest
\* add_task, and finished holds exactly when a total is set and the current
\* amount has reached it.
C12_CurrentIsSumOfAdvances ==
    prog.pc # "none" =>
        /\ prog.current = prog.sum
        /\ (Finished(prog) <=> (prog.total.set /\ prog.sum >= prog.total.v))

C12_Witness ==
    /\ prog.pc = "open"
    /\ prog.calls >= 2
    /\ prog.current = 3
    /\ prog.total = Some(2)
    /\ Finished(prog)

\* C13: when a fallback progress scope is left, normally or by an exception,
\* the finalisation has run and the progress line of the error stream is
\* blank: no character of a progress line drawn earlier remains.
C13_LineBlankAfterExit ==
    prog.pc = "exited" => (prog.finalized /\ IsBlank(term.line))

\* the interior width of the panel that was rendered
PanelInner == InnerWidth(SplitLines(panelIn.content), panelIn.title, panelIn.compact)

\* C14: a fallback panel title longer than the interior width is cut and
\* marked with an ellipsis, and what stands between the two border characters
\* of the title row is not wider than the interior.
C14_LongTitleTruncated ==
    (panelOut.done /\ Len(panelIn.title) > PanelInner) =>
        /\ panelOut.rows[2] = <<BoxVertical, " ">> \o Prefix(panelIn.title, PanelInner - 3)
                              \o <<Ellipsis, " ", BoxVertical>>
        /\ Len(panelOut.rows[2]) - 2 <= PanelInner

C14_Witness ==
    /\ panelOut.done
    /\ Len(panelIn.title) = PanelInner + 1
    /\ panelOut.rows[2][PanelInner] = Ellipsis

\* C15: every row of a compact fallback panel is max(longest content line,
\* title length, 18) + 4 wide, and every row of a non-compact panel is as wide
\* as the fixed default.
C15_RenderedWidth ==
    panelOut.done =>
        \A i \in DOMAIN panelOut.rows :
            Len(panelOut.rows[i]) =
                IF panelIn.compact
                THEN Max(Max(MaxContentWidth(SplitLines(panelIn.content)), Len(panelIn.title)),
                         MinCompactWidth) + PanelPadding
                ELSE DefaultAsciiPanelWidth

\* how often a character occurs in a string
Occurrences(s, ch) == Cardinality({i \in DOMAIN s : s[i] = ch})

\* C16: a fallback rule whose non-empty title plus padding is wider than the
\* terminal prints the title centred in the terminal width, for every alignment
\* and fill: the line holds no fill character beyond those of the title itself.
C16_LongTitleCentred ==
    (/\ ruleOut.done
     /\ ruleIn.title # <<>>
     /\ Len(ruleIn.title) + 2 * RulePadding > ruleIn.width)
        => /\ ruleOut.rows[1] = Center(ruleIn.title, ruleIn.width)
           /\ Occurrences(ruleOut.rows[1], RuleChar(ruleIn.characters))
                 = Occurrences(ruleIn.title, RuleChar(ruleIn.characters))

C16_Witness ==
    /\ ruleOut.done
    /\ Len(ruleIn.title) = 7 /\ ruleIn.width = 10
    /\ ruleIn.align = "left" /\ ruleIn.characters = <<"-">>
    /\ ruleOut.rows[1] = <<" ">> \o ruleIn.title \o <<" ", " ">>

\* C17: an exception that escapes a setup step is logged at CRITICAL and
\* leaves setup_logging as LoggerSetupError: a new one with the original as its
\* cause when the original is of another type, the caught object itself when
\* it already is a LoggerSetupError; no pair is returned.
C17_EscapesAsSetupError ==
    ret.status = "raised" =>
        /\ ret.criticalLogged
        /\ ret.error.type = "LoggerSetupError"
        /\ (ret.origin # "LoggerSetupError"
               => ~ret.error.same /\ ret.error.chained = ret.origin)
        /\ (ret.origin = "LoggerSetupError" => ret.error.same)
        /\ ~ret.enabled /\ ret.path = NoPath

C17_Witness ==
    /\ ret.status = "raised"
    /\ ret.stage = "console"
    /\ ret.origin = "ValueError"
    /\ ret.error = [type |-> "LoggerSetupError", same |-> FALSE, chained |-> "ValueError"]
    /\ BridgeCount = 1

\* C18: no value of console_level or file_level makes setup_logging raise:
\* every call completes and returns its pair.
C18_LevelsNeverRaise == ret.status # "none" => ret.status = "returned"

\* the number of a level accepted by validation: an int, or a level name in any
\* letter case
LevelNo(level) == IF level.k = "int" THEN level.n ELSE NameToLevel(Upper(level.s))

\* C19: after a setup_logging call that returned, the root logger's level is
\* min(console level, file level) when file logging is reported enabled and the
\* console level when it is not, a refused file sink included.
C19_RootLevel ==
    ret.status = "returned" =>
        rootLevel = IF ret.enabled
                    THEN Min(LevelNo(cfg.console_level), LevelNo(cfg.file_level))
                    ELSE LevelNo(cfg.console_level)

\* C20, as stated: after setup_logging returned, a logger lookup returns a
\* StandardLogger for every name, names looked up before setup_logging and the
\* root logger included.
C20_EveryLookupIsFacade ==
    (lookup.done /\ lookup.afterSetup) => lookup.cls = "StandardLogger"

\* C20, amended: after setup_logging returned, a lookup returns a
\* StandardLogger for every name first looked up after a setup_logging call
\* returned, and for the logger setup_logging makes itself; a name first looked
\* up before the first setup_logging call keeps its logging.Logger instance,
\* and the root logger is never a StandardLogger.
C20_NewNamesAreFacades ==
    (lookup.done /\ lookup.afterSetup) =>
        /\ (lookup.name = RootName => lookup.cls = "RootLogger")
        /\ (lookup.name # RootName /\ lookup.era \in {"after", "setup"}
               => lookup.cls = "StandardLogger")
        /\ (lookup.name # RootName /\ lookup.era = "before" => lookup.cls = "Logger")

C20_Witness ==
    /\ lookup.done /\ lookup.afterSetup
    /\ lookup.name = "app.db" /\ lookup.cls = "StandardLogger"
    /\ loggers["app"] = [cls |-> "Logger", era |-> "before"]

\* C21: for every entry point of the facade (debug, info, warning, error,
\* critical, exception) the frame reported for the record the bridge forwards
\* is the user's call site, never a frame of the facade, of the bridge or of
\* the logging module.
C21_ReportsUserCallSite ==
    (site.done /\ site.cls = "StandardLogger" /\ site.entry \in EntryPoints) =>
        /\ site.reported = site.stack[site.callSite]
        /\ site.depth + 1 = site.callSite
        /\ site.reported.file \notin {"facade", "bridge", "logging"}

\* under no interpreter does a record of the facade get the user's call site:
\* the walk starts at emit and reports callHandlers, or starts at callHandlers
\* and stops at StandardLogger._log
C21_FacadeNeverAtCallSite ==
    (site.done /\ site.cls = "StandardLogger") =>
        /\ site.reported.file # "user"
        /\ (py = "3.11" => site.reported = Frame("logging", "callHandlers"))
        /\ (py = "3.10" => site.reported = Frame("facade", "_log"))

\* a plain logging.Logger under the older interpreter is reported at its call
\* site: there the walk leaves the logging module in the caller's code
C21_PlainAtCallSite ==
    (site.done /\ site.cls = "Logger" /\ py = "3.10") =>
        site.depth + 1 = site.callSite

\* C22: the record of every exception() call carries the suppression key with
\* the value (an exception is present) and (rich console and not simple
\* tracebacks), taken from the class flags at the call; the value the caller's
\* extra mapping has for the key, true or false, is overridden.
C22_SuppressValueFromFlags ==
    lastCall.op = "exception" =>
        lastCall.suppress = (lastCall.hasExc /\ clsFlags.useRich /\ ~clsFlags.useSimple)

C22_Witness ==
    /\ lastCall.op = "exception"
    /\ lastCall.given = "false"
    /\ lastCall.hasExc /\ clsFlags.useRich /\ ~clsFlags.useSimple
    /\ lastCall.suppress

\* a record that was dispatched after a setup_logging call that returned
RecordDispatched ==
    /\ ret.status = "returned"
    /\ lastCall.op = "record"
    /\ lastCall.branch = "dispatch"

\* the console handler setup_logging installed has the suppression filter
FilterAttached ==
    \E i \in DOMAIN rootHandlers : rootHandlers[i].kind = "rich" /\ rootHandlers[i].filter

\* C23, as stated: with the rich console and rich tracebacks the console
\* handler drops any record that carries the suppression key and lets every
\* record without the key through; with the rich console and simple tracebacks
\* no filter is attached and no record is dropped because of the key.
C23_DropsEveryKeyedRecord ==
    RecordDispatched =>
        /\ (cfg.use_rich_console /\ ~cfg.use_simple_tracebacks =>
               /\ FilterAttached
               /\ (lastCall.given # "absent" => lastCall.msgs = 0)
               /\ (lastCall.given = "absent" /\ ConsoleAdmits(lastCall.levelno)
                      => lastCall.msgs = 1))
        /\ (cfg.use_rich_console /\ cfg.use_simple_tracebacks =>
               /\ ~FilterAttached
               /\ (ConsoleAdmits(lastCall.levelno) => lastCall.msgs = 1))

\* C23, amended: with the rich console and rich tracebacks the console handler
\* drops the records whose suppression key is true and lets through the
\* records without the key and those whose key is false; with the rich console
\* and simple tracebacks no filter is attached and no record is dropped
\* because of the key.
C23_DropsRecordsMarkedTrue ==
    RecordDispatched =>
        /\ (cfg.use_rich_console /\ ~cfg.use_simple_tracebacks =>
               /\ FilterAttached
               /\ (lastCall.given = "true" => lastCall.msgs = 0)
               /\ (lastCall.given # "true" /\ ConsoleAdmits(lastCall.levelno)
                      => lastCall.msgs = 1))
        /\ (cfg.use_rich_console /\ cfg.use_simple_tracebacks =>
               /\ ~FilterAttached
               /\ (ConsoleAdmits(lastCall.levelno) => lastCall.msgs = 1))

C23_Witness ==
    /\ RecordDispatched
    /\ cfg.use_rich_console /\ ~cfg.use_simple_tracebacks
    /\ FilterAttached
    /\ lastCall.given = "false"
    /\ lastCall.msgs = 1

\* C24, as stated: whenever file logging is enabled, the ERROR record of an
\* exception() call reaches the file sink, for every file level, console level
\* and logger level and whatever the value of the suppression key.
C24_ErrorRecordAlwaysInFile ==
    (ret.status = "returned" /\ ret.enabled /\ lastCall.op = "exception")
        => lastCall.errorToFile = 1

\* C24, amended: whenever file logging is enabled, the ERROR record of an
\* exception() call reaches the file sink exactly when the configured file
\* level is ERROR or lower, for every console level and logger level and
\* whatever the value of the suppression key; a file level above ERROR keeps
\* it out of the file.
C24_ErrorRecordInFileAtFileLevel ==
    (ret.status = "returned" /\ ret.enabled /\ lastCall.op = "exception")
        => lastCall.errorToFile = IF LevelNo(cfg.file_level) <= ERROR THEN 1 ELSE 0

C24_Witness ==
    /\ ret.status = "returned" /\ ret.enabled
    /\ lastCall.op = "exception"
    /\ lastCall.suppress
    /\ cfg.console_level = IntLevel(CRITICAL)
    /\ cfg.file_level = IntLevel(DEBUG)
    /\ lastCall.msgs = 0
    /\ lastCall.errorToFile = 1

\* C25: after every redraw of the fallback progress line, by update or by
\* add_task, first or repeated, the line of the error stream shows exactly the
\* text just drawn: no cell beyond it keeps a character of the line drawn
\* before, also when the new text is shorter.
C25_RedrawLeavesNoResidue ==
    (prog.pc = "open" /\ prog.calls >= 1) =>
        \A i \in DOMAIN term.line : i > prog.last_len => term.line[i] = " "

\* C26: every row the fallback panel prints (top border, title row, separator,
\* content rows, bottom border) has the same width, so no content row reaches
\* past the right border: a content line longer than the interior is cut and
\* marked with an ellipsis so that it fits the interior with its one-space left
\* padding; in fixed-width and in compact mode, and for a line exactly as long
\* as the interior.
C26_RowsOfOneWidth ==
    panelOut.done =>
        /\ \A i, j \in DOMAIN panelOut.rows : Len(panelOut.rows[i]) = Len(panelOut.rows[j])
        /\ \A i \in DOMAIN panelOut.rows :
              /\ Len(panelOut.rows[i]) = PanelInner + 2
              /\ panelOut.rows[i][Len(panelOut.rows[i])]
                    \in {BoxVertical, BoxTopRight, BoxBottomRight, BoxTeeRight}

\* the rows are of one width exactly when no content line is as long as the
\* interior or longer; such a line gives a row one cell wider than the borders
C26_RaggedFromInteriorWidthOn ==
    panelOut.done =>
        ((\A i, j \in DOMAIN panelOut.rows : Len(panelOut.rows[i]) = Len(panelOut.rows[j]))
            <=> MaxContentWidth(SplitLines(panelIn.content)) < PanelInner)

\* an exception() call with an exception present has completed, and the
\* console output installed when its record was dispatched takes ERROR records
RaceCallDone == pending.pc = "done" /\ pending.hasExc /\ pending.admitted

\* C27: setup_logging is not safe to run concurrently with logging calls.  An
\* exception() call with an exception present gets a number of traceback
\* renderings other than one only when a setup_logging call ran between its
\* reading of the class flags and the dispatch of its record and the flags it
\* decided from are not those of the configuration whose handlers got the
\* record; the witness is such an interleaving, with two renderings.
C27_OneRenderingUnlessRaced ==
    RaceCallDone =>
        /\ (~pending.raced => pending.dispatchTB + pending.manualTB = 1)
        /\ (pending.dispatchTB + pending.manualTB # 1
               => pending.raced /\ pending.manual # pending.wiredManual)

C27_Witness ==
    /\ RaceCallDone
    /\ pending.raced
    /\ pending.manual /\ ~pending.wiredManual
    /\ pending.dispatchTB = 1 /\ pending.manualTB = 1

\* C28: after every setup_logging call that returned, also after several, the
\* suppression filter is on the installed console handler exactly when the
\* class flags say rich console and not simple tracebacks; so an exception()
\* call prints its traceback manually exactly when the record it marked for
\* suppression is dropped by the console handler.
C28_FilterIffManualFlags ==
    ret.status = "returned" =>
        /\ (FilterAttached <=> (clsFlags.useRich /\ ~clsFlags.useSimple))
        /\ ((lastCall.op = "exception" /\ lastCall.hasExc) =>
               (lastCall.manualTB = 1
                   <=> (lastCall.suppress /\ FilterAttached /\ lastCall.msgs = 0)))

C28_Witness ==
    /\ ret.status = "returned" /\ nOk >= 2
    /\ FilterAttached
    /\ clsFlags.useRich /\ ~clsFlags.useSimple
    /\ lastCall.op = "exception" /\ lastCall.hasExc
    /\ lastCall.manualTB = 1 /\ lastCall.msgs = 0
    /\ ConsoleAdmits(ERROR)

\* C29: the uncaught-exception hook is only ever installed, never removed: a
\* setup_logging call with the rich console and rich tracebacks installs it
\* with its show-locals setting, a call with the plain console or with simple
\* tracebacks leaves the hook and its show-locals setting as they were, and no
\* other call touches it; so the hook is that of the most recent call that had
\* both options.
C29_HookOnlyInstalled ==
    [][IF lastCall'.op = "setup"
       THEN IF cfg'.use_rich_console /\ ~cfg'.use_simple_tracebacks
            THEN hook' = [installed |-> TRUE, locals |-> cfg'.show_locals_on_exception]
            ELSE hook' = hook
       ELSE hook' = hook]_vars

\* the hook of an earlier call, with show-locals on, is still installed after a
\* later call with the plain console and show-locals off
C29_Witness ==
    /\ ret.status = "returned" /\ nOk >= 2
    /\ lastCall.op = "setup"
    /\ ~cfg.use_rich_console /\ ~cfg.show_locals_on_exception
    /\ hook = [installed |-> TRUE, locals |-> TRUE]

\* C30: setup_logging does not roll back.  When a call raises at a step after
\* the root logger was configured (the console handler step), the handlers the
\* previous call installed are gone (the root holds the new bridge handler
\* only, no sink is left), the class flags hold the values of the failed call,
\* and after a call that had returned the wiring is not what it was before.
C30_NoRollback ==
    [][(ret'.status = "raised" /\ ret'.stage = "console") =>
           /\ rootHandlers' = <<BridgeHandler>>
           /\ sinks' = <<>>
           /\ clsFlags'.useRich
           /\ cfg' = cfg
           /\ (ret.status = "returned" =>
                  <<rootHandlers', sinks', clsFlags'>> # <<rootHandlers, sinks, clsFlags>>)]_vars

\* after a call with the plain console had returned, a call with the rich
\* console raised: the console sink is gone and the flags say rich console
C30_Witness ==
    /\ ret.status = "raised" /\ ret.stage = "console"
    /\ nOk >= 1
    /\ ~cfg.use_rich_console
    /\ clsFlags.useRich
    /\ rootHandlers = <<BridgeHandler>>
    /\ sinks = <<>>

====
